---- MODULE Spec2Model ----
(***************************************************************************)
(* pdf2txt: the text extraction library (src/lib.ts, whose text is the     *)
(* second half of src/README.md).  One invocation of extractTextFromPdf    *)
(* (directly or through extractText / extractLayoutData) is followed from  *)
(* the call to the value or error the caller receives, with the layout     *)
(* reconstruction (reconstructLayout) stepped one loop iteration at a      *)
(* time.                                                                   *)
(*                                                                         *)
(* Text is a sequence of one-character strings, so that columns, lengths   *)
(* and trimming are computed and not assumed.  Coordinates are integers.   *)
(***************************************************************************)
EXTENDS Integers, Sequences, FiniteSets, TLC

\* ------------------------------------------------------------------ bounds
\* text items on one page
MaxItems == 3
\* pages of a document
MaxPages == 3
\* y coordinates 0..MaxY (and one far line) on the pages that vary rows
MaxY == 2
\* x coordinates 0..MaxX on the pages that vary columns
MaxX == 4
\* x coordinates 0..MaxRowX on the pages that vary rows
MaxRowX == 2
\* pages of a document read by one of two concurrent invocations
MaxPairPages == 2

\* ------------------------------------------------------- program constants
DefaultYTolerance == 2
DefaultCharacterWidthDivisor == 4
SortBand == 10
RuleWidth == 80
LookAhead == 3

\* ------------------------------------------------------------ text helpers
Repeat(c, n) == [k \in 1..n |-> c]

Max(S) == CHOOSE m \in S : \A k \in S : k <= m

Min(S) == CHOOSE m \in S : \A k \in S : m <= k

Abs(n) == IF n < 0 THEN -n ELSE n

\* the concatenation of a sequence of sequences
RECURSIVE Flatten(_)
Flatten(seqs) == IF seqs = <<>> THEN <<>> ELSE Head(seqs) \o Flatten(Tail(seqs))

\* the characters String.prototype.trimEnd removes: the white space and the
\* line terminators of the language.  A character that has no escape in a
\* string is written as its code point.
WhiteSpace ==
  {"\t", "\n", "U+000B", "\f", "\r", " ", "U+00A0", "U+1680",
   "U+2000", "U+2001", "U+2002", "U+2003", "U+2004", "U+2005", "U+2006",
   "U+2007", "U+2008", "U+2009", "U+200A", "U+2028", "U+2029", "U+202F",
   "U+205F", "U+3000", "U+FEFF"}

TrimEnd(s) ==
  LET keep == {k \in 1..Len(s) : s[k] \notin WhiteSpace}
  IN  IF keep = {} THEN <<>> ELSE SubSeq(s, 1, Max(keep))

DigitChar == <<"0", "1", "2", "3", "4", "5", "6", "7", "8", "9">>

\* template-literal conversion of a non-negative integer: its decimal digits
RECURSIVE NumberToString(_)
NumberToString(n) ==
  IF n < 10 THEN <<DigitChar[n + 1]>>
  ELSE NumberToString(n \div 10) \o <<DigitChar[(n % 10) + 1]>>

\* Number.prototype.toFixed(2) of a non-negative integer
ToFixed2(n) == NumberToString(n) \o <<".", "0", "0">>

\* ------------------------------------------------- JavaScript number values
\* A position can become NaN or Infinity when characterWidthDivisor is 0.
Num(n) == [k |-> "num", n |-> n]
NaN == [k |-> "NaN", n |-> 0]
PosInf == [k |-> "Infinity", n |-> 0]
NegInf == [k |-> "-Infinity", n |-> 0]

JsAdd(a, b) ==
  CASE a.k = "NaN" \/ b.k = "NaN" -> NaN
    [] a.k = "num" /\ b.k = "num" -> Num(a.n + b.n)
    [] a.k = "num" -> b
    [] b.k = "num" -> a
    [] a.k = b.k -> a
    [] OTHER -> NaN

JsNeg(a) ==
  CASE a.k = "num" -> Num(-a.n)
    [] a.k = "Infinity" -> NegInf
    [] a.k = "-Infinity" -> PosInf
    [] OTHER -> NaN

JsSub(a, b) == JsAdd(a, JsNeg(b))

\* Math.max(0, a)
JsMax0(a) ==
  CASE a.k = "num" -> Num(IF a.n > 0 THEN a.n ELSE 0)
    [] a.k = "-Infinity" -> Num(0)
    [] OTHER -> a

\* a > 0
JsPositive(a) == (a.k = "num" /\ a.n > 0) \/ a.k = "Infinity"

\* a < n
JsLess(a, n) == (a.k = "num" /\ a.n < n) \/ a.k = "-Infinity"

\* Math.round(d / w) for integers d, w: round half up; d / 0 is NaN or an
\* infinity
RoundDiv(d, w) ==
  CASE w > 0 -> Num((2 * d + w) \div (2 * w))
    [] w < 0 -> Num(((-2) * d - w) \div ((-2) * w))
    [] d = 0 -> NaN
    [] d > 0 -> PosInf
    [] OTHER -> NegInf

\* ----------------------------------------------------- Array.prototype.sort
\* CompareItems without the band: descending y, then ascending x
CompareItemsByY(a, b) == IF b.y - a.y # 0 THEN b.y - a.y ELSE a.x - b.x

\* The comparators of the three sort calls of reconstructLayout.
CompareItems(a, b) ==
  LET yDiff == b.y - a.y
  IN  IF Abs(yDiff) < SortBand THEN a.x - b.x ELSE yDiff

\* CompareGroups with the lowest group first
CompareGroupsAscending(a, b) == a.groupY - b.groupY

CompareGroups(a, b) == b.groupY - a.groupY

CompareX(a, b) == a.x - b.x

Compare(kind, a, b) ==
  CASE kind = "items" -> CompareItems(a, b)
    [] kind = "groups" -> CompareGroups(a, b)
    [] OTHER -> CompareX(a, b)

\* The engine's sort for arrays of fewer than 64 elements: the leading
\* run is found (and reversed when strictly descending), then every later
\* element is placed by binary insertion.  The first comparator is not a
\* consistent ordering, so the result depends on this order of comparisons.
RECURSIVE RunLength(_, _, _, _)
RunLength(kind, a, descending, idx) ==
  IF idx > Len(a) THEN idx - 1
  ELSE LET order == Compare(kind, a[idx], a[idx - 1])
       IN  IF (descending /\ order >= 0) \/ (~descending /\ order < 0)
           THEN idx - 1
           ELSE RunLength(kind, a, descending, idx + 1)

Reverse(s) == [k \in 1..Len(s) |-> s[Len(s) + 1 - k]]

RECURSIVE BinarySearch(_, _, _, _, _)
BinarySearch(kind, a, pivot, left, right) ==
  IF left < right
  THEN LET mid == left + ((right - left) \div 2)
       IN  IF Compare(kind, pivot, a[mid + 1]) < 0
           THEN BinarySearch(kind, a, pivot, left, mid)
           ELSE BinarySearch(kind, a, pivot, mid + 1, right)
  ELSE left

RECURSIVE BinaryInsertionSort(_, _, _)
BinaryInsertionSort(kind, a, start) ==
  IF start >= Len(a) THEN a
  ELSE LET pivot == a[start + 1]
           left == BinarySearch(kind, a, pivot, 0, start)
           placed == SubSeq(a, 1, left) \o <<pivot>>
                       \o SubSeq(a, left + 1, start)
                       \o SubSeq(a, start + 2, Len(a))
       IN  BinaryInsertionSort(kind, placed, start + 1)

JsSort(kind, a) ==
  IF Len(a) < 2 THEN a
  ELSE LET descending == Compare(kind, a[2], a[1]) < 0
           run == RunLength(kind, a, descending, 3)
           made == IF descending
                   THEN Reverse(SubSeq(a, 1, run)) \o SubSeq(a, run + 1, Len(a))
                   ELSE a
       IN  BinaryInsertionSort(kind, made, run)

\* ------------------------------------------------------ reconstructLayout
Rule == Repeat("=", RuleWidth)

\* the separator written before a page whose number is greater than 1
Banner(pageNumber) ==
  <<"\n", "\n">> \o Rule \o <<"\n">>
    \o <<"P", "a", "g", "e", " ">> \o NumberToString(pageNumber) \o <<"\n">>
    \o Rule \o <<"\n", "\n">>

\* Map.prototype.set: an existing key keeps its place and gets the new value
MapSet(yGroups, key, value) ==
  LET same == {k \in 1..Len(yGroups) : yGroups[k].groupY = key}
  IN  IF same = {}
      THEN Append(yGroups, [groupY |-> key, items |-> value])
      ELSE [yGroups EXCEPT ![Min(same)].items = value]

\* ClusterItem with a tolerance that includes the boundary
ClusterItemInclusive(yGroups, item, yTolerance) ==
  LET found == {k \in 1..Len(yGroups) :
                  Abs(item.y - yGroups[k].groupY) <= yTolerance}
  IN  IF found # {}
      THEN [yGroups EXCEPT ![Min(found)].items = Append(@, item)]
      ELSE MapSet(yGroups, item.y, <<item>>)

\* ClusterItem without the break: every group within the tolerance takes
\* the item
ClusterItemEveryGroup(yGroups, item, yTolerance) ==
  LET found == {k \in 1..Len(yGroups) :
                  Abs(item.y - yGroups[k].groupY) < yTolerance}
  IN  IF found # {}
      THEN [k \in 1..Len(yGroups) |->
              IF k \in found
              THEN [yGroups[k] EXCEPT !.items = Append(@, item)]
              ELSE yGroups[k]]
      ELSE MapSet(yGroups, item.y, <<item>>)

\* ClusterItem with the key of a group moved to the item it takes
ClusterItemMovingAnchor(yGroups, item, yTolerance) ==
  LET found == {k \in 1..Len(yGroups) :
                  Abs(item.y - yGroups[k].groupY) < yTolerance}
  IN  IF found # {}
      THEN [yGroups EXCEPT ![Min(found)].items = Append(@, item),
                           ![Min(found)].groupY = item.y]
      ELSE MapSet(yGroups, item.y, <<item>>)

\* ClusterItem with the last group within the tolerance taking the item
ClusterItemLastMatch(yGroups, item, yTolerance) ==
  LET found == {k \in 1..Len(yGroups) :
                  Abs(item.y - yGroups[k].groupY) < yTolerance}
  IN  IF found # {}
      THEN [yGroups EXCEPT ![Max(found)].items = Append(@, item)]
      ELSE MapSet(yGroups, item.y, <<item>>)

\* one iteration of the clustering loop: the first group, in insertion
\* order, whose key is within the tolerance takes the item
ClusterItem(yGroups, item, yTolerance) ==
  LET found == {k \in 1..Len(yGroups) :
                  Abs(item.y - yGroups[k].groupY) < yTolerance}
  IN  IF found # {}
      THEN [yGroups EXCEPT ![Min(found)].items = Append(@, item)]
      ELSE MapSet(yGroups, item.y, <<item>>)

\* the console.error line written for one item of a group
DebugLine(item, groupSize) ==
  <<"D", "E", "B", "U", "G", ":", " ", "\"">> \o item.str
    \o <<"\"", " ", "y", "=">> \o ToFixed2(item.y)
    \o <<" ", "x", "=">> \o ToFixed2(item.x)
    \o <<" ", "g", "r", "o", "u", "p", "e", "d", " ", "w", "i", "t", "h", " ">>
    \o NumberToString(groupSize)
    \o <<" ", "i", "t", "e", "m", "s">>

\* the lines written while the groups are turned into lines
RECURSIVE DebugOutput(_, _)
DebugOutput(lines, enableDebug) ==
  IF ~enableDebug \/ lines = <<>> THEN <<>>
  ELSE [k \in 1..Len(Head(lines)) |-> DebugLine(Head(lines)[k], Len(Head(lines)))]
         \o DebugOutput(Tail(lines), enableDebug)

\* LeftmostX with the page edge, not the leftmost item, as the baseline
LeftmostXZero(textItems) == 0

\* Math.min over the x of all items of the page
LeftmostX(textItems) == Min({textItems[k].x : k \in 1..Len(textItems)})

TargetPos(item, leftmostX, characterWidthDivisor) ==
  RoundDiv(item.x - leftmostX, characterWidthDivisor)

\* nothing thrown
NoError == [kind |-> "none"]

\* String.prototype.repeat(Infinity)
RangeError == [kind |-> "Error", name |-> "RangeError",
               message |-> "Invalid count value: Infinity"]

\* the frame of reconstructLayout before its first statement
RLInit ==
  [pc |-> "idle", layoutText |-> <<>>, pi |-> 0, sortedItems |-> <<>>,
   ci |-> 0, yGroups |-> <<>>, lines |-> <<>>, leftmostX |-> 0,
   li |-> 0, i |-> 0, lineText |-> <<>>, lastPos |-> Num(0),
   stderr |-> <<>>, error |-> NoError]

RLEnter == [RLInit EXCEPT !.pc = "page", !.pi = 1]

\* RLBeginPage with the banner before every page, the first included
RLBeginPageEveryPage(r, pageLayouts) ==
  IF r.pi > Len(pageLayouts) THEN [r EXCEPT !.pc = "return"]
  ELSE LET page == pageLayouts[r.pi]
           text == r.layoutText \o Banner(page.pageNumber)
           sorted == JsSort("items", page.textItems)
       IN  IF Len(sorted) = 0
           THEN [r EXCEPT !.layoutText = text, !.pi = @ + 1]
           ELSE [r EXCEPT !.layoutText = text, !.sortedItems = sorted,
                          !.yGroups = <<>>, !.ci = 1, !.pc = "cluster"]

\* RLBeginPage with a blank line for a page without items
RLBeginPageBlankLine(r, pageLayouts) ==
  IF r.pi > Len(pageLayouts) THEN [r EXCEPT !.pc = "return"]
  ELSE LET page == pageLayouts[r.pi]
           text == IF page.pageNumber > 1
                   THEN r.layoutText \o Banner(page.pageNumber)
                   ELSE r.layoutText
           sorted == JsSort("items", page.textItems)
       IN  IF Len(sorted) = 0
           THEN [r EXCEPT !.layoutText = text \o <<"\n">>, !.pi = @ + 1]
           ELSE [r EXCEPT !.layoutText = text, !.sortedItems = sorted,
                          !.yGroups = <<>>, !.ci = 1, !.pc = "cluster"]

\* head of the page loop: banner, first sort, skip of an empty page
RLBeginPage(r, pageLayouts) ==
  IF r.pi > Len(pageLayouts) THEN [r EXCEPT !.pc = "return"]
  ELSE LET page == pageLayouts[r.pi]
           text == IF page.pageNumber > 1
                   THEN r.layoutText \o Banner(page.pageNumber)
                   ELSE r.layoutText
           sorted == JsSort("items", page.textItems)
       IN  IF Len(sorted) = 0
           THEN [r EXCEPT !.layoutText = text, !.pi = @ + 1]
           ELSE [r EXCEPT !.layoutText = text, !.sortedItems = sorted,
                          !.yGroups = <<>>, !.ci = 1, !.pc = "cluster"]

\* first pass, one item
RLClusterStep(r, o) ==
  LET groups == ClusterItem(r.yGroups, r.sortedItems[r.ci], o.yTolerance)
  IN  [r EXCEPT !.yGroups = groups, !.ci = @ + 1,
                !.pc = IF r.ci + 1 > Len(r.sortedItems) THEN "lines" ELSE "cluster"]

\* RLBuildLines with the debug lines written into the layout text as well
RLBuildLinesDebugInText(r, pageLayouts, o) ==
  LET sortedYGroups == JsSort("groups", r.yGroups)
      lines == [k \in 1..Len(sortedYGroups) |-> JsSort("x", sortedYGroups[k].items)]
  IN  [r EXCEPT !.yGroups = [k \in 1..Len(r.yGroups) |->
                               [r.yGroups[k] EXCEPT !.items = JsSort("x", @)]],
                !.lines = lines,
                !.stderr = @ \o DebugOutput(lines, o.enableDebug),
                !.layoutText = @ \o Flatten(DebugOutput(lines, o.enableDebug)),
                !.leftmostX = LeftmostX(pageLayouts[r.pi].textItems),
                !.li = 1, !.i = 1, !.lineText = <<>>, !.lastPos = Num(0),
                !.pc = "item"]

\* second pass: groups by descending key, each sorted by x in place; debug
\* output; the leftmost x of the page
RLBuildLines(r, pageLayouts, o) ==
  LET sortedYGroups == JsSort("groups", r.yGroups)
      lines == [k \in 1..Len(sortedYGroups) |-> JsSort("x", sortedYGroups[k].items)]
  IN  [r EXCEPT !.yGroups = [k \in 1..Len(r.yGroups) |->
                               [r.yGroups[k] EXCEPT !.items = JsSort("x", @)]],
                !.lines = lines,
                !.stderr = @ \o DebugOutput(lines, o.enableDebug),
                !.leftmostX = LeftmostX(pageLayouts[r.pi].textItems),
                !.li = 1, !.i = 1, !.lineText = <<>>, !.lastPos = Num(0),
                !.pc = "item"]

\* RLItemStep with one space too few before an item
RLItemStepOffByOne(r, o) ==
  LET line == r.lines[r.li]
      item == line[r.i]
      targetPos == TargetPos(item, r.leftmostX, o.characterWidthDivisor)
      spacesNeeded == JsMax0(JsSub(JsSub(targetPos, r.lastPos), Num(1)))
      end == JsAdd(targetPos, Num(Len(item.str)))
      gapSize == JsSub(TargetPos(line[r.i + 1], r.leftmostX,
                                 o.characterWidthDivisor), end)
      close == r.i < Len(line) /\ JsPositive(gapSize) /\ JsLess(gapSize, LookAhead)
  IN  IF JsPositive(spacesNeeded) /\ spacesNeeded.k # "num"
      THEN [r EXCEPT !.pc = "throw", !.error = RangeError]
      ELSE [r EXCEPT
             !.lineText = @ \o (IF JsPositive(spacesNeeded)
                                THEN Repeat(" ", spacesNeeded.n) ELSE <<>>)
                            \o item.str
                            \o (IF close THEN <<" ">> ELSE <<>>),
             !.lastPos = IF close THEN JsAdd(end, Num(1)) ELSE end,
             !.i = @ + 1]

\* RLItemStep without the advance of lastPos after the look-ahead space
RLItemStepNoAdvance(r, o) ==
  LET line == r.lines[r.li]
      item == line[r.i]
      targetPos == TargetPos(item, r.leftmostX, o.characterWidthDivisor)
      spacesNeeded == JsMax0(JsSub(targetPos, r.lastPos))
      end == JsAdd(targetPos, Num(Len(item.str)))
      gapSize == JsSub(TargetPos(line[r.i + 1], r.leftmostX,
                                 o.characterWidthDivisor), end)
      close == r.i < Len(line) /\ JsPositive(gapSize) /\ JsLess(gapSize, LookAhead)
  IN  IF JsPositive(spacesNeeded) /\ spacesNeeded.k # "num"
      THEN [r EXCEPT !.pc = "throw", !.error = RangeError]
      ELSE [r EXCEPT
             !.lineText = @ \o (IF JsPositive(spacesNeeded)
                                THEN Repeat(" ", spacesNeeded.n) ELSE <<>>)
                            \o item.str
                            \o (IF close THEN <<" ">> ELSE <<>>),
             !.lastPos = end,
             !.i = @ + 1]

\* RLItemStep with lastPos set to the length of the line written so far
RLItemStepCursorAtEnd(r, o) ==
  LET line == r.lines[r.li]
      item == line[r.i]
      targetPos == TargetPos(item, r.leftmostX, o.characterWidthDivisor)
      spacesNeeded == JsMax0(JsSub(targetPos, r.lastPos))
      end == JsAdd(targetPos, Num(Len(item.str)))
      gapSize == JsSub(TargetPos(line[r.i + 1], r.leftmostX,
                                 o.characterWidthDivisor), end)
      close == r.i < Len(line) /\ JsPositive(gapSize) /\ JsLess(gapSize, LookAhead)
      text == r.lineText \o (IF JsPositive(spacesNeeded)
                             THEN Repeat(" ", spacesNeeded.n) ELSE <<>>)
                \o item.str
                \o (IF close THEN <<" ">> ELSE <<>>)
  IN  IF JsPositive(spacesNeeded) /\ spacesNeeded.k # "num"
      THEN [r EXCEPT !.pc = "throw", !.error = RangeError]
      ELSE [r EXCEPT !.lineText = text, !.lastPos = Num(Len(text)), !.i = @ + 1]

\* RLItemStep with the look-ahead space also before an item that touches
RLItemStepSpaceWhenTouching(r, o) ==
  LET line == r.lines[r.li]
      item == line[r.i]
      targetPos == TargetPos(item, r.leftmostX, o.characterWidthDivisor)
      spacesNeeded == JsMax0(JsSub(targetPos, r.lastPos))
      end == JsAdd(targetPos, Num(Len(item.str)))
      gapSize == JsSub(TargetPos(line[r.i + 1], r.leftmostX,
                                 o.characterWidthDivisor), end)
      close == r.i < Len(line) /\ JsLess(gapSize, LookAhead)
                 /\ (JsPositive(gapSize) \/ gapSize = Num(0))
  IN  IF JsPositive(spacesNeeded) /\ spacesNeeded.k # "num"
      THEN [r EXCEPT !.pc = "throw", !.error = RangeError]
      ELSE [r EXCEPT
             !.lineText = @ \o (IF JsPositive(spacesNeeded)
                                THEN Repeat(" ", spacesNeeded.n) ELSE <<>>)
                            \o item.str
                            \o (IF close THEN <<" ">> ELSE <<>>),
             !.lastPos = IF close THEN JsAdd(end, Num(1)) ELSE end,
             !.i = @ + 1]

\* one iteration of the item loop of a line
RLItemStep(r, o) ==
  LET line == r.lines[r.li]
      item == line[r.i]
      targetPos == TargetPos(item, r.leftmostX, o.characterWidthDivisor)
      spacesNeeded == JsMax0(JsSub(targetPos, r.lastPos))
      end == JsAdd(targetPos, Num(Len(item.str)))
      gapSize == JsSub(TargetPos(line[r.i + 1], r.leftmostX,
                                 o.characterWidthDivisor), end)
      close == r.i < Len(line) /\ JsPositive(gapSize) /\ JsLess(gapSize, LookAhead)
  IN  IF JsPositive(spacesNeeded) /\ spacesNeeded.k # "num"
      THEN [r EXCEPT !.pc = "throw", !.error = RangeError]
      ELSE [r EXCEPT
             !.lineText = @ \o (IF JsPositive(spacesNeeded)
                                THEN Repeat(" ", spacesNeeded.n) ELSE <<>>)
                            \o item.str
                            \o (IF close THEN <<" ">> ELSE <<>>),
             !.lastPos = IF close THEN JsAdd(end, Num(1)) ELSE end,
             !.i = @ + 1]

\* end of a line: trimmed, newline appended; then the next line or page
RLEndLine(r) ==
  LET text == r.layoutText \o TrimEnd(r.lineText) \o <<"\n">>
  IN  IF r.li + 1 > Len(r.lines)
      THEN [r EXCEPT !.layoutText = text, !.li = @ + 1, !.pi = @ + 1, !.pc = "page"]
      ELSE [r EXCEPT !.layoutText = text, !.li = @ + 1, !.i = 1,
                     !.lineText = <<>>, !.lastPos = Num(0)]

RLAtItem(r) == r.pc = "item" /\ r.i <= Len(r.lines[r.li])

RLAtEndLine(r) == r.pc = "item" /\ r.i > Len(r.lines[r.li])

RLStep(r, pageLayouts, o) ==
  CASE r.pc = "page" -> RLBeginPage(r, pageLayouts)
    [] r.pc = "cluster" -> RLClusterStep(r, o)
    [] r.pc = "lines" -> RLBuildLines(r, pageLayouts, o)
    [] RLAtItem(r) -> RLItemStep(r, o)
    [] OTHER -> RLEndLine(r)

\* the whole call: the frame when it returns or throws
RECURSIVE RLRun(_, _, _)
RLRun(r, pageLayouts, o) ==
  IF r.pc \in {"return", "throw"} THEN r
  ELSE RLRun(RLStep(r, pageLayouts, o), pageLayouts, o)

reconstructLayout(pageLayouts, o) == RLRun(RLEnter, pageLayouts, o)

\* ---------------------------------------------------------------- inputs
Item(str, x, y, hasEOL) == [str |-> str, x |-> x, y |-> y, hasEOL |-> hasEOL]

\* the item lists of at most n items over the given contents and coordinates
PagesOver(strs, xs, ys, eols, n) ==
  UNION {[1..k -> {Item(s, x, y, e) : s \in strs, x \in xs, y \in ys, e \in eols}]
           : k \in 0..n}

\* rows vary: y in 0..MaxY and one line farther up, just inside the band of
\* the first sort from MaxY and outside it from the lines below MaxY
RowPages ==
  PagesOver({<<"a">>}, 0..MaxRowX, (0..MaxY) \cup {MaxY + SortBand - 1},
            {FALSE}, MaxItems)

\* columns vary: one y, contents of length 0, 1 and 2
LinePages ==
  PagesOver({<<>>, <<"a">>, <<"b", "c">>}, 0..MaxX, {0}, {FALSE}, MaxItems)

\* the pages of documents of several pages: empty, or one item whose content
\* may be empty or blank and which may end a line
SmallPages ==
  PagesOver({<<>>, <<"A">>, <<" ">>}, {0}, {0}, BOOLEAN, 1)

\* the scenario of the README: a header row of a table
NameAgePage ==
  <<Item(<<"N", "a", "m", "e">>, 0, 100, FALSE),
    Item(<<"A", "g", "e">>, 40, 100, FALSE)>>

\* a row that ends in white space other than the space: a no-break space
\* after a word, then a form feed
NoBreakPage ==
  <<Item(<<"a", "U+00A0">>, 0, 0, FALSE), Item(<<"\f">>, 16, 0, FALSE)>>

\* what getTextContent can deliver for a page.  The rich pages come with
\* single-page documents read through extractTextFromPdf itself, and one
\* option is varied at a time.
PageContents(c) ==
  SmallPages
    \cup (IF c.numPages = 1 /\ c.entry = "extractTextFromPdf"
          THEN (IF c.opts.characterWidthDivisor \in {0, DefaultCharacterWidthDivisor}
                THEN RowPages ELSE {})
               \cup (IF c.opts.yTolerance = DefaultYTolerance
                        /\ c.opts.characterWidthDivisor # 0
                     THEN LinePages \cup {NameAgePage, NoBreakPage} ELSE {})
          ELSE {})

\* what getMetadata can resolve with: no info dictionary, one without a
\* title, one with a title
NoInfo == [present |-> FALSE, Title |-> ""]

Infos == {NoInfo, [present |-> TRUE, Title |-> ""], [present |-> TRUE, Title |-> "Report"]}

\* The info dictionary varies with the documents of small pages.
MetadataInfos(c) ==
  IF c.numPages = 1 /\ c.entry = "extractTextFromPdf" THEN {NoInfo} ELSE Infos

YToleranceValues == {0, 1, DefaultYTolerance}

CharacterWidthDivisorValues == {0, 1, DefaultCharacterWidthDivisor}

EmptyOptions == [k \in {} |-> FALSE]

Option(key, values) == {EmptyOptions} \cup {[k \in {key} |-> v] : v \in values}

\* the options objects a caller passes: every key optional
UserOptions ==
  {a @@ b @@ d @@ e :
     a \in Option("includeLayout", BOOLEAN),
     b \in Option("yTolerance", YToleranceValues),
     d \in Option("characterWidthDivisor", CharacterWidthDivisorValues),
     e \in Option("enableDebug", BOOLEAN)}

\* what a rejected promise or a throw of the collaborators carries: an Error
\* with a message, or a value that is not an Error
Thrown(step) ==
  {[kind |-> "Error", name |-> "Error", message |-> step \o " failed"],
   [kind |-> "value", text |-> step \o " rejected"]}

\* ---------------------------------------------------- extractTextFromPdf
DefaultOptions ==
  [includeLayout |-> FALSE, yTolerance |-> DefaultYTolerance,
   characterWidthDivisor |-> DefaultCharacterWidthDivisor, enableDebug |-> FALSE]

\* { ...defaults, ...options }
MergeOptions(options) ==
  [k \in DOMAIN DefaultOptions |->
     IF k \in DOMAIN options THEN options[k] ELSE DefaultOptions[k]]

\* EntryOptions of wrappers that pass their options on untouched
EntryOptionsAsGiven(entry, options) == options

\* the options object each entry point hands to extractTextFromPdf
EntryOptions(entry, options) ==
  CASE entry = "extractText" -> [k \in {"includeLayout"} |-> FALSE]
    [] entry = "extractLayoutData" -> [k \in {"includeLayout"} |-> TRUE] @@ options
    [] OTHER -> options

NoResult == [kind |-> "none"]

\* the invocation right after the options are merged; a string path is read
\* first, a buffer is used as it is
Call(entry, options, isPath) ==
  [entry |-> entry, opts |-> MergeOptions(EntryOptions(entry, options)),
   pc |-> IF isPath THEN "readFile" ELSE "getDocument",
   numPages |-> 0, pageNumber |-> 0, extractedText |-> <<>>,
   pageLayouts |-> <<>>, totalTextItems |-> 0, info |-> NoInfo,
   caught |-> NoError, result |-> NoResult, received |-> NoResult]

\* Catch that throws the cause on as it is
CatchRethrow(c, error) ==
  [c EXCEPT !.pc = "thrown", !.caught = error,
            !.result = IF error.kind = "Error"
                       THEN [kind |-> "error", name |-> error.name,
                             message |-> error.message]
                       ELSE [kind |-> "error", name |-> "value",
                             message |-> error.text]]

\* the catch clause: one Error whose message carries the cause
Catch(c, error) ==
  LET errorMessage == IF error.kind = "Error" THEN error.message ELSE error.text
  IN  [c EXCEPT !.pc = "thrown", !.caught = error,
                !.result = [kind |-> "error", name |-> "Error",
                            message |-> "Failed to extract text from PDF: "
                                          \o errorMessage]]

\* the plain return when no layout is asked for
ReturnText(c) ==
  [c EXCEPT !.pc = "returned",
            !.result = [kind |-> "text", text |-> c.extractedText]]

\* where control goes once the page loop is over
AfterPages(c) ==
  IF c.opts.includeLayout THEN [c EXCEPT !.pc = "getMetadata"] ELSE ReturnText(c)

\* head of the page loop
NextPage(c) ==
  IF c.pageNumber <= c.numPages THEN [c EXCEPT !.pc = "getPage"] ELSE AfterPages(c)

ReadFileDone(c) == [c EXCEPT !.pc = "getDocument"]

GetDocumentDone(c, numPages) ==
  NextPage([c EXCEPT !.numPages = numPages, !.pageNumber = 1])

GetPageDone(c) == [c EXCEPT !.pc = "getTextContent"]

\* PageText without the line ends
PageTextNoLineEnds(items) == Flatten([k \in 1..Len(items) |-> items[k].str])

\* the flat text of the items of one page
RECURSIVE PageText(_)
PageText(items) ==
  IF items = <<>> THEN <<>>
  ELSE Head(items).str \o (IF Head(items).hasEOL THEN <<"\n">> ELSE <<>>)
         \o PageText(Tail(items))

\* the body of the page loop after getTextContent resolved
GetTextContentDone(c, items) ==
  LET textItems == [k \in 1..Len(items) |->
                      [str |-> items[k].str, x |-> items[k].x, y |-> items[k].y,
                       hasEOL |-> items[k].hasEOL]]
  IN  NextPage([c EXCEPT
        !.extractedText = @ \o PageText(items),
        !.totalTextItems = @ + Len(textItems),
        !.pageLayouts = IF c.opts.includeLayout
                        THEN Append(@, [pageNumber |-> c.pageNumber,
                                        textItems |-> textItems])
                        ELSE @,
        !.pageNumber = @ + 1])

GetMetadataDone(c, info) == [c EXCEPT !.pc = "reconstructLayout", !.info = info]

Null == [kind |-> "null"]

\* value || null for a string
OrNull(present, value) ==
  IF present /\ value # "" THEN [kind |-> "string", value |-> value] ELSE Null

\* the structured result
ReturnLayout(c, layoutText) ==
  [c EXCEPT !.pc = "returned",
            !.result = [kind |-> "layout", text |-> c.extractedText,
                        layoutText |-> layoutText,
                        metadata |-> [title |-> OrNull(c.info.present, c.info.Title),
                                      pages |-> c.numPages],
                        pages |-> c.numPages,
                        pageLayouts |-> c.pageLayouts,
                        rawData |-> [textLength |-> Len(c.extractedText),
                                     hasMetadata |-> c.info.present,
                                     totalTextItems |-> c.totalTextItems]]]

\* extractText / extractLayoutData hand on what extractTextFromPdf settled with
Propagate(c) == [c EXCEPT !.pc = "done", !.received = c.result]

\* what the caller of the entry point has in hand
Received(c) ==
  IF c.entry = "extractTextFromPdf"
  THEN (IF c.pc \in {"returned", "thrown"} THEN c.result ELSE NoResult)
  ELSE c.received

\* ------------------------------------------------------------- the machine
VARIABLES call, rl

vars == <<call, rl>>

Entries == {"extractTextFromPdf", "extractText", "extractLayoutData"}

Init ==
  /\ \E entry \in Entries, options \in UserOptions, isPath \in BOOLEAN :
       call = Call(entry, options, isPath)
  /\ rl = RLInit

ReadFile ==
  /\ call.pc = "readFile"
  /\ call' = ReadFileDone(call)
  /\ UNCHANGED rl

ReadFileFails ==
  /\ call.pc = "readFile"
  /\ \E e \in Thrown("readFile") : call' = Catch(call, e)
  /\ UNCHANGED rl

GetDocument ==
  /\ call.pc = "getDocument"
  /\ \E n \in 0..MaxPages : call' = GetDocumentDone(call, n)
  /\ UNCHANGED rl

GetDocumentFails ==
  /\ call.pc = "getDocument"
  /\ \E e \in Thrown("getDocument") : call' = Catch(call, e)
  /\ UNCHANGED rl

GetPage ==
  /\ call.pc = "getPage"
  /\ call' = GetPageDone(call)
  /\ UNCHANGED rl

GetPageFails ==
  /\ call.pc = "getPage"
  /\ \E e \in Thrown("getPage") : call' = Catch(call, e)
  /\ UNCHANGED rl

GetTextContent ==
  /\ call.pc = "getTextContent"
  /\ \E items \in PageContents(call) : call' = GetTextContentDone(call, items)
  /\ UNCHANGED rl

GetTextContentFails ==
  /\ call.pc = "getTextContent"
  /\ \E e \in Thrown("getTextContent") : call' = Catch(call, e)
  /\ UNCHANGED rl

GetMetadata ==
  /\ call.pc = "getMetadata"
  /\ \E info \in MetadataInfos(call) : call' = GetMetadataDone(call, info)
  /\ rl' = RLEnter

GetMetadataFails ==
  /\ call.pc = "getMetadata"
  /\ \E e \in Thrown("getMetadata") : call' = Catch(call, e)
  /\ UNCHANGED rl

BeginPage ==
  /\ call.pc = "reconstructLayout" /\ rl.pc = "page"
  /\ rl' = RLBeginPage(rl, call.pageLayouts)
  /\ UNCHANGED call

ClusterStep ==
  /\ call.pc = "reconstructLayout" /\ rl.pc = "cluster"
  /\ rl' = RLClusterStep(rl, call.opts)
  /\ UNCHANGED call

BuildLines ==
  /\ call.pc = "reconstructLayout" /\ rl.pc = "lines"
  /\ rl' = RLBuildLines(rl, call.pageLayouts, call.opts)
  /\ UNCHANGED call

ItemStep ==
  /\ call.pc = "reconstructLayout" /\ RLAtItem(rl)
  /\ rl' = RLItemStep(rl, call.opts)
  /\ UNCHANGED call

EndLine ==
  /\ call.pc = "reconstructLayout" /\ RLAtEndLine(rl)
  /\ rl' = RLEndLine(rl)
  /\ UNCHANGED call

ReconstructReturns ==
  /\ call.pc = "reconstructLayout" /\ rl.pc = "return"
  /\ call' = ReturnLayout(call, rl.layoutText)
  /\ UNCHANGED rl

ReconstructThrows ==
  /\ call.pc = "reconstructLayout" /\ rl.pc = "throw"
  /\ call' = Catch(call, rl.error)
  /\ UNCHANGED rl

Wrapper ==
  /\ call.entry # "extractTextFromPdf"
  /\ call.pc \in {"returned", "thrown"}
  /\ call' = Propagate(call)
  /\ UNCHANGED rl

Next ==
  \/ ReadFile \/ ReadFileFails
  \/ GetDocument \/ GetDocumentFails
  \/ GetPage \/ GetPageFails
  \/ GetTextContent \/ GetTextContentFails
  \/ GetMetadata \/ GetMetadataFails
  \/ BeginPage \/ ClusterStep \/ BuildLines \/ ItemStep \/ EndLine
  \/ ReconstructReturns \/ ReconstructThrows
  \/ Wrapper

Spec == Init /\ [][Next]_vars

\* ------------------------------------------- two concurrent invocations
\* Two invocations of the entry points run on one event loop.  Each is
\* suspended at an await and resumed when the awaited promise settles; what
\* runs between two awaits runs to its end, reconstructLayout included.  In
\* this specification call.invs[p] is invocation p: its argument (a path or
\* a byte array, and what is behind it) and the frame of its
\* extractTextFromPdf; rl[p] is the frame of its reconstructLayout.  The byte
\* arrays are objects of the caller: call.same says that the two invocations
\* were handed one and the same array, and call.taken holds the arrays that
\* pdf.js has taken over.
PairPages ==
  {<<Item(<<"A">>, 0, 0, TRUE)>>,
   <<Item(<<"b">>, 4, 0, FALSE), Item(<<"a">>, 0, 0, FALSE)>>}

\* what is behind the argument: nothing Deno.readFile can read (no file, a
\* directory, no permission), bytes that are not a PDF, or a PDF with its
\* pages and its info dictionary
Sources ==
  {[kind |-> "missing", pages |-> <<>>, info |-> NoInfo],
   [kind |-> "invalid", pages |-> <<>>, info |-> NoInfo]}
    \cup {[kind |-> "pdf", pages |-> pages, info |-> info] :
            pages \in UNION {[1..k -> PairPages] : k \in 0..MaxPairPages},
            info \in {NoInfo, [present |-> TRUE, Title |-> "Report"]}}

PairOptions == {EmptyOptions, [k \in {"includeLayout"} |-> TRUE]}

Invocation(entry, options, isPath, file) ==
  [isPath |-> isPath, file |-> file, frame |-> Call(entry, options, isPath)]

Invocations ==
  {Invocation(entry, options, isPath, file) :
     entry \in Entries, options \in PairOptions, isPath \in BOOLEAN, file \in Sources}

\* Frame with one set of locals for all invocations
FrameOfFirst(invs, p) == invs[1].frame

\* the locals an invocation works on: its own
Frame(invs, p) == invs[p].frame

Failure(step) == [kind |-> "Error", name |-> "Error", message |-> step \o " failed"]

\* an invocation resumed at its await: the frame it is suspended with next
Resumed(inv, c) ==
  CASE c.pc = "readFile" ->
         IF inv.file.kind = "missing" THEN Catch(c, Failure("readFile"))
         ELSE ReadFileDone(c)
    [] c.pc = "getDocument" ->
         IF inv.file.kind = "pdf" THEN GetDocumentDone(c, Len(inv.file.pages))
         ELSE Catch(c, Failure("getDocument"))
    [] c.pc = "getPage" -> GetPageDone(c)
    [] c.pc = "getTextContent" -> GetTextContentDone(c, inv.file.pages[c.pageNumber])
    [] c.pc = "getMetadata" ->
         LET m == GetMetadataDone(c, inv.file.info)
             r == reconstructLayout(m.pageLayouts, m.opts)
         IN  IF r.pc = "throw" THEN Catch(m, r.error) ELSE ReturnLayout(m, r.layoutText)
    [] OTHER -> Propagate(c)

\* the caller of the entry point has its value or its error
IsSettled(c) ==
  IF c.entry = "extractTextFromPdf" THEN c.pc \in {"returned", "thrown"}
  ELSE c.pc = "done"

\* an invocation run from its call to its settlement with nothing else
\* running
RECURSIVE Alone(_)
Alone(inv) ==
  IF IsSettled(inv.frame) THEN inv
  ELSE Alone([inv EXCEPT !.frame = Resumed(inv, inv.frame)])

\* the byte array invocation p was handed: array 1 for both when they were
\* handed the same one, its own otherwise; 0 for a path, whose bytes
\* Deno.readFile delivers in a new array
Array(c, p) ==
  IF c.invs[p].isPath THEN 0 ELSE IF c.same THEN 1 ELSE p

\* an array that was taken over has no bytes left
Detached == [kind |-> "detached", pages |-> <<>>, info |-> NoInfo]

\* invocation p with what it reads at the await named by pc: getDocument
\* reads the array as it is now, the later steps read the document loaded
Seen(c, p, pc) ==
  IF pc = "getDocument" /\ Array(c, p) \in c.taken
  THEN [c.invs[p] EXCEPT !.file = Detached]
  ELSE c.invs[p]

\* pdfjsLib.getDocument is handed the array itself (data: pdfBuffer).  What
\* it does with it is not in the repository: it works on a copy, or it takes
\* the array over (pdfjs-dist 4 transfers a typed array that covers its whole
\* buffer, which leaves the caller's array detached).
Takes(c, p, pc) ==
  IF pc = "getDocument" /\ Array(c, p) \notin c.taken \cup {0} THEN BOOLEAN ELSE {FALSE}

PairInit ==
  /\ call \in {[invs |-> invs, same |-> same, taken |-> {}] :
                 invs \in [1..2 -> Invocations],
                 same \in BOOLEAN}
  /\ call.same => /\ ~call.invs[1].isPath /\ ~call.invs[2].isPath
                  /\ call.invs[1].file = call.invs[2].file
  /\ rl = [p \in 1..2 |-> RLInit]

\* invocation p is resumed at the await named by pc
Resume(p, pc) ==
  /\ Frame(call.invs, p).pc = pc
  /\ \E takes \in Takes(call, p, pc) :
       call' = [call EXCEPT
         !.invs[p].frame = Resumed(Seen(call, p, pc), Frame(call.invs, p)),
         !.taken = IF takes THEN @ \cup {Array(call, p)} ELSE @]
  /\ rl' = IF pc = "getMetadata"
           THEN [rl EXCEPT ![p] = reconstructLayout(Frame(call.invs, p).pageLayouts,
                                                    Frame(call.invs, p).opts)]
           ELSE rl

PairReadFile == \E p \in 1..2 : Resume(p, "readFile")

PairGetDocument == \E p \in 1..2 : Resume(p, "getDocument")

PairGetPage == \E p \in 1..2 : Resume(p, "getPage")

PairGetTextContent == \E p \in 1..2 : Resume(p, "getTextContent")

PairGetMetadata == \E p \in 1..2 : Resume(p, "getMetadata")

PairWrapper ==
  \E p \in 1..2 :
    /\ Frame(call.invs, p).entry # "extractTextFromPdf"
    /\ Resume(p, "returned") \/ Resume(p, "thrown")

PairNext ==
  \/ PairReadFile \/ PairGetDocument \/ PairGetPage
  \/ PairGetTextContent \/ PairGetMetadata \/ PairWrapper

PairSpec == PairInit /\ [][PairNext]_vars

\* ------------------------------------------------------ the command line
\* One run of the command-line program (main.ts).  In this specification
\* call is the frame of main together with what the process has written and
\* how it ended, and rl is the frame of the reconstructLayout that the
\* extraction ran, if it ran one.
VERSION == "1.0.0"

HelpText ==
  <<"",
    "PDF2TXT - Convert PDF files to text",
    "",
    "USAGE:",
    "    pdf2txt [OPTIONS] --input <INPUT_FILE>",
    "",
    "OPTIONS:",
    "    -i, --input <FILE>                    Input PDF file path",
    "    -o, --output <FILE>                   Output text file path (optional)",
    "    -l, --layout                          Include layout and metadata information",
    "    -j, --json                            Output in JSON format (useful with --layout)",
    "    -d, --debug                           Enable debug output for layout analysis",
    "    --y-tolerance <NUMBER>                Y-coordinate tolerance for grouping (default: 2)",
    "    --character-width-divisor <NUMBER>    Character width divisor for positioning (default: 4.0)",
    "    -h, --help                            Show this help message",
    "    -v, --version                         Show version information",
    "",
    "EXAMPLES:",
    "    pdf2txt --input document.pdf",
    "    pdf2txt --input document.pdf --output output.txt",
    "    pdf2txt --input document.pdf --layout --json",
    "    pdf2txt -i document.pdf -o output.txt --layout",
    "    pdf2txt -i document.pdf -l -j -o metadata.json",
    "    pdf2txt -i document.pdf --layout --debug --y-tolerance 1.5",
    "">>

\* a string option of the command line: absent, given without a value, given
StringArgs(value) ==
  {[given |-> FALSE, value |-> ""], [given |-> TRUE, value |-> ""],
   [given |-> TRUE, value |-> value]}

\* what parseArgs returns
CliArgs ==
  [help : BOOLEAN, version : BOOLEAN, layout : BOOLEAN, json : BOOLEAN,
   debug : BOOLEAN, input : StringArgs("document.pdf"),
   output : StringArgs("output.txt"),
   yTolerance : {DefaultYTolerance},
   characterWidthDivisor : {DefaultCharacterWidthDivisor}]

\* a string of the arguments taken as a condition
Truthy(arg) == arg.given /\ arg.value # ""

\* MainBranch with the version looked at before the help
MainBranchVersionFirst(args) ==
  CASE args.version -> "version"
    [] args.help -> "help"
    [] ~Truthy(args.input) -> "input required"
    [] OTHER -> "convert"

\* the branch main takes
MainBranch(args) ==
  CASE args.help -> "help"
    [] args.version -> "version"
    [] ~Truthy(args.input) -> "input required"
    [] OTHER -> "convert"

\* the options main builds for the library
ExtractionOptions(args) ==
  [includeLayout |-> args.layout, enableDebug |-> args.debug,
   yTolerance |-> args.yTolerance,
   characterWidthDivisor |-> args.characterWidthDivisor]

Line(text) == [kind |-> "line", line |-> text]

\* extractTextFromPdf has not been called
NotCalled == [pc |-> "not called"]

\* no file looked at yet
NoFile == [kind |-> "none", pages |-> <<>>, info |-> NoInfo]

\* main right after parseArgs
Main(args) ==
  [args |-> args, pc |-> "main", stdout |-> <<>>, stderr |-> <<>>,
   exited |-> FALSE, code |-> 0, file |-> NoFile, frame |-> NotCalled,
   written |-> {}]

\* the process ends: main returned, or Deno.exit was called
Exit(m, code) == [m EXCEPT !.pc = "exited", !.exited = TRUE, !.code = code]

\* the content written to the output file or to the standard output
OutputContent(args, result) ==
  IF args.layout /\ result.kind = "layout"
  THEN [kind |-> "content", format |-> IF args.json THEN "json" ELSE "report",
        data |-> result]
  ELSE [kind |-> "content", format |-> "text", data |-> result]

CliInit ==
  /\ \E args \in CliArgs : call = Main(args)
  /\ rl = RLInit

ShowHelp ==
  /\ call.pc = "main" /\ MainBranch(call.args) = "help"
  /\ call' = Exit([call EXCEPT !.stdout = Append(@, [kind |-> "lines", lines |-> HelpText])], 0)
  /\ UNCHANGED rl

ShowVersion ==
  /\ call.pc = "main" /\ MainBranch(call.args) = "version"
  /\ call' = Exit([call EXCEPT !.stdout = Append(@, Line("pdf2txt v" \o VERSION))], 0)
  /\ UNCHANGED rl

InputRequired ==
  /\ call.pc = "main" /\ MainBranch(call.args) = "input required"
  /\ call' = Exit([call EXCEPT !.stderr =
                     @ \o <<Line("Error: Input file is required. Use --input or -i to specify a PDF file."),
                            Line("Use --help for more information.")>>], 1)
  /\ UNCHANGED rl

\* main calls convertPdfToText, which awaits exists(inputPath)
Convert ==
  /\ call.pc = "main" /\ MainBranch(call.args) = "convert"
  /\ call' = [call EXCEPT !.pc = "exists"]
  /\ UNCHANGED rl

InputMissing ==
  /\ call.pc = "exists"
  /\ call' = Exit([call EXCEPT !.stderr =
                     Append(@, Line("Error: Input file '" \o call.args.input.value
                                      \o "' does not exist."))], 1)
  /\ UNCHANGED rl

\* exists() gave true: extractTextFromPdf is called with the path and runs to
\* its first await.  What Deno.readFile will find there is not known from
\* exists(): it may still reject.
StartExtraction ==
  /\ call.pc = "exists"
  /\ \E file \in Sources :
       call' = [call EXCEPT
         !.pc = "extract", !.file = file,
         !.frame = Call("extractTextFromPdf", ExtractionOptions(call.args), TRUE),
         !.stdout = Append(@, Line("Converting PDF: " \o call.args.input.value))]
  /\ UNCHANGED rl

DebugLines(r) == [k \in 1..Len(r.stderr) |-> [kind |-> "debug", text |-> r.stderr[k]]]

\* the extraction is resumed at the await named by pc and runs to its next
\* await or to its settlement; the reconstructLayout it runs after
\* getMetadata writes its DEBUG lines
CliResume(pc) ==
  /\ call.pc = "extract" /\ call.frame.pc = pc
  /\ \E c \in {Resumed(call, call.frame)} :
       \E r \in {IF pc = "getMetadata"
                 THEN reconstructLayout(call.frame.pageLayouts, call.frame.opts)
                 ELSE rl} :
         /\ rl' = r
         /\ call' = [call EXCEPT
              !.frame = c,
              !.stderr = IF pc = "getMetadata" THEN @ \o DebugLines(r) ELSE @]

\* convertPdfToText resumed with the value or the error of the extraction:
\* it goes on to Deno.exit in its catch, to the await of Deno.writeTextFile,
\* or to its return
AfterExtraction(m) ==
  CASE m.frame.pc = "thrown" ->
         Exit([m EXCEPT !.stderr = Append(@, Line("Error processing PDF: "
                                                    \o m.frame.result.message))], 1)
    [] Truthy(m.args.output) -> [m EXCEPT !.pc = "write"]
    [] OTHER ->
         [m EXCEPT
            !.pc = "converted",
            !.stdout = @ \o <<Line(IF m.args.layout /\ ~m.args.json
                                   THEN "Extracted content with layout information:"
                                   ELSE "Extracted text:"),
                              OutputContent(m.args, m.frame.result)>>]

\* the job that resumes convertPdfToText after await extractTextFromPdf
Extracted ==
  /\ call.pc = "extract" /\ IsSettled(call.frame)
  /\ call' = AfterExtraction(call)
  /\ UNCHANGED rl

CliReadFile == CliResume("readFile")

CliGetDocument == CliResume("getDocument")

CliGetPage == CliResume("getPage")

CliGetTextContent == CliResume("getTextContent")

CliGetMetadata == CliResume("getMetadata")

WriteOutput ==
  /\ call.pc = "write"
  /\ call' = [call EXCEPT
         !.pc = "converted",
         !.written = @ \cup {[path |-> call.args.output.value,
                              content |-> OutputContent(call.args, call.frame.result)]},
         !.stdout = Append(@, Line("Text saved to: " \o call.args.output.value))]
  /\ UNCHANGED rl

\* the output file cannot be written
WriteFails ==
  /\ call.pc = "write"
  /\ call' = Exit([call EXCEPT
         !.stderr = Append(@, Line("Error processing PDF: "
                                     \o Failure("writeTextFile").message))], 1)
  /\ UNCHANGED rl

\* the job that resumes main after await convertPdfToText: main returns and
\* the process ends
MainReturns ==
  /\ call.pc = "converted"
  /\ call' = Exit(call, 0)
  /\ UNCHANGED rl

CliNext ==
  \/ ShowHelp \/ ShowVersion \/ InputRequired
  \/ Convert \/ InputMissing \/ StartExtraction
  \/ CliReadFile \/ CliGetDocument \/ CliGetPage
  \/ CliGetTextContent \/ CliGetMetadata \/ Extracted
  \/ WriteOutput \/ WriteFails \/ MainReturns

CliSpec == CliInit /\ [][CliNext]_vars

\* ------------------------------------------------------------ the claims
\* the options the documentation admits
ValidOptions(o) == o.yTolerance > 0 /\ o.characterWidthDivisor > 0

InLayout == call.pc = "reconstructLayout"

CurrentPage == call.pageLayouts[rl.pi]

CurrentLine == rl.lines[rl.li]

\* round((x - leftmostX) / characterWidthDivisor) on the current page
Column(item) == TargetPos(item, rl.leftmostX, call.opts.characterWidthDivisor).n

\* the distance from the end of fragment a at its column to the column of b
Distance(a, b) == Column(b) - (Column(a) + Len(a.str))

Strs(items) == [k \in 1..Len(items) |-> items[k].str]

NonOverlapping(line) ==
  \A k \in 1..(Len(line) - 1) :
    Column(line[k + 1]) >= Column(line[k]) + Len(line[k].str)

\* the first n fragments of a line, each written at its own column
RECURSIVE Placed(_, _)
Placed(line, n) ==
  IF n = 0 THEN <<>>
  ELSE LET before == Placed(line, n - 1)
       IN  before \o Repeat(" ", Column(line[n]) - Len(before)) \o line[n].str

AtCompleteRow == InLayout /\ ValidOptions(call.opts) /\ RLAtEndLine(rl)

\* C1 as stated: a row whose fragments do not reach each other's columns is
\* rendered with every content exactly at its column and spaces in between.
C1_Original ==
  [][(AtCompleteRow /\ NonOverlapping(CurrentLine))
       => rl'.layoutText = rl.layoutText
                             \o Placed(CurrentLine, Len(CurrentLine)) \o <<"\n">>]_vars

\* C1, amended: such a row is rendered with every content exactly at its
\* column and spaces in between, and then loses its trailing whitespace,
\* that of the last content included.
C1_ColumnsExact ==
  [][(AtCompleteRow /\ NonOverlapping(CurrentLine))
       => rl'.layoutText = rl.layoutText
                             \o TrimEnd(Placed(CurrentLine, Len(CurrentLine)))
                             \o <<"\n">>]_vars

NameAgeLine ==
  <<"N", "a", "m", "e", " ", " ", " ", " ", " ", " ", "A", "g", "e", "\n">>

C1_Witness ==
  /\ rl.pc = "return"
  /\ call.opts.yTolerance = 2 /\ call.opts.characterWidthDivisor = 4
  /\ Len(call.pageLayouts) = 1
  /\ call.pageLayouts[1].textItems = NameAgePage
  /\ rl.layoutText = NameAgeLine

Count(s, v) == Cardinality({k \in 1..Len(s) : s[k] = v})

\* the same elements with the same multiplicities
SameBag(s, t) ==
  /\ Len(s) = Len(t)
  /\ \A k \in 1..Len(s) : Count(s, s[k]) = Count(t, s[k])

GroupItems(yGroups) == Flatten([k \in 1..Len(yGroups) |-> yGroups[k].items])

IsLetter(c) == c \notin WhiteSpace

Letters(text) == SelectSeq(text, IsLetter)

\* a page is being laid out under admitted options
OnPage == InLayout /\ ValidOptions(call.opts) /\ rl.pc \in {"cluster", "lines", "item"}

\* a document of one page has been laid out completely
OnePageDone ==
  /\ InLayout /\ ValidOptions(call.opts) /\ rl.pc = "return"
  /\ Len(call.pageLayouts) = 1

\* C2: two fragments of a page at y and y + d are in one row exactly when
\* |d| < yTolerance; at |d| = yTolerance they are two rows and two lines.
C2_ToleranceBoundary ==
  LET items == call.pageLayouts[IF rl.pc = "return" THEN 1 ELSE rl.pi].textItems
      near == Abs(items[1].y - items[2].y) < call.opts.yTolerance
  IN  ((OnPage \/ OnePageDone) /\ Len(items) = 2) =>
        /\ rl.pc \in {"lines", "item"} =>
             IF near
             THEN Len(rl.yGroups) = 1 /\ Len(rl.yGroups[1].items) = 2
             ELSE /\ Len(rl.yGroups) = 2
                  /\ Len(rl.yGroups[1].items) = 1 /\ Len(rl.yGroups[2].items) = 1
        /\ rl.pc = "item" => Len(rl.lines) = (IF near THEN 1 ELSE 2)
        /\ rl.pc = "return" => Count(rl.layoutText, "\n") = (IF near THEN 1 ELSE 2)

C2_Witness ==
  /\ OnePageDone
  /\ Len(call.pageLayouts[1].textItems) = 2
  /\ Abs(call.pageLayouts[1].textItems[1].y - call.pageLayouts[1].textItems[2].y)
       = call.opts.yTolerance
  /\ Count(rl.layoutText, "\n") = 2

\* C3: the row groups partition the fragments: after every step of the
\* clustering pass the groups hold exactly the fragments processed so far,
\* once each; the lines hold exactly the fragments of the page; and the
\* rendering of the page holds the content of each fragment once.
C3_RowsPartition ==
  /\ OnPage =>
       /\ SameBag(rl.sortedItems, CurrentPage.textItems)
       /\ \A k \in 1..Len(rl.yGroups) : rl.yGroups[k].items # <<>>
       /\ rl.pc = "cluster" =>
            SameBag(GroupItems(rl.yGroups), SubSeq(rl.sortedItems, 1, rl.ci - 1))
       /\ rl.pc = "lines" => SameBag(GroupItems(rl.yGroups), CurrentPage.textItems)
       /\ rl.pc = "item" =>
            /\ SameBag(Flatten(rl.lines), CurrentPage.textItems)
            /\ Letters(rl.lineText)
                 = Letters(Flatten(Strs(SubSeq(CurrentLine, 1, rl.i - 1))))
  /\ OnePageDone =>
       SameBag(Letters(rl.layoutText),
               Letters(Flatten(Strs(call.pageLayouts[1].textItems))))

\* three fragments, two of them equal, clustered into two rows
C3_Witness ==
  /\ OnPage /\ rl.pc = "lines"
  /\ Len(rl.sortedItems) = 3 /\ Len(rl.yGroups) = 2
  /\ \E j, k \in 1..3 : j < k /\ rl.sortedItems[j] = rl.sortedItems[k]

\* the lines of a text: the pieces its newline characters end
RECURSIVE SplitLines(_)
SplitLines(text) ==
  LET ends == {k \in 1..Len(text) : text[k] = "\n"}
  IN  IF text = <<>> THEN <<>>
      ELSE IF ends = {} THEN <<text>>
      ELSE <<SubSeq(text, 1, Min(ends) - 1)>>
             \o SplitLines(SubSeq(text, Min(ends) + 1, Len(text)))

RECURSIVE Ascending(_)
Ascending(S) == IF S = {} THEN <<>> ELSE <<Min(S)>> \o Ascending(S \ {Min(S)})

IsNumbered(page) == page.pageNumber > 1

EightyEquals == [k \in 1..80 |-> "="]

PageLabel(n) == <<"P", "a", "g", "e", " ">> \o NumberToString(n)

\* C4: page 1 has no banner; every page numbered n > 1 is preceded by a
\* blank line, a rule of 80 "=", the line "Page n", a second rule and a
\* blank line, with n the number carried by the page; so the rendering holds
\* one banner per page numbered above 1, in page order, and the line of a
\* page follows its banner.
C4_PageBanners ==
  (InLayout /\ rl.pc = "return") =>
    LET L == SplitLines(rl.layoutText)
        rules == Ascending({k \in 1..Len(L) : L[k] = EightyEquals})
        numbered == SelectSeq(call.pageLayouts, IsNumbered)
    IN  /\ Len(rules) = 2 * Len(numbered)
        /\ \A j \in 1..Len(numbered) :
             LET r == rules[2 * j - 1]
                 page == numbered[j]
             IN  /\ rules[2 * j] = r + 2
                 /\ r > 1 /\ L[r - 1] = <<>>
                 /\ L[r + 1] = PageLabel(page.pageNumber)
                 /\ L[r + 3] = <<>>
                 /\ Len(page.textItems) = 1 =>
                      L[r + 4] = TrimEnd(page.textItems[1].str)
        /\ \A k \in 1..Len(L) :
             (Len(L[k]) >= 4 /\ SubSeq(L[k], 1, 4) = <<"P", "a", "g", "e">>)
               => k > 1 /\ L[k - 1] = EightyEquals

\* three pages of one fragment each: two banners, for pages 2 and 3
C4_Witness ==
  /\ InLayout /\ rl.pc = "return"
  /\ Len(call.pageLayouts) = 3
  /\ \A k \in 1..3 : Strs(call.pageLayouts[k].textItems) = <<<<"A">>>>
  /\ Count(SplitLines(rl.layoutText), EightyEquals) = 4
  /\ Count(SplitLines(rl.layoutText), PageLabel(2)) = 1
  /\ Count(SplitLines(rl.layoutText), PageLabel(3)) = 1

AtEmptyPage ==
  /\ InLayout /\ rl.pc = "page" /\ rl.pi <= Len(call.pageLayouts)
  /\ CurrentPage.textItems = <<>>

\* C5: no pages give the empty string; a page without fragments adds no
\* line, only its banner when its number is above 1.
C5_EmptyInput ==
  [][/\ AtEmptyPage =>
          /\ rl'.layoutText
               = rl.layoutText \o (IF CurrentPage.pageNumber > 1
                                   THEN Banner(CurrentPage.pageNumber) ELSE <<>>)
          /\ rl'.pc = "page" /\ rl'.pi = rl.pi + 1
     /\ (InLayout /\ call.pageLayouts = <<>> /\ rl.pc \in {"page", "return"}) =>
          /\ rl'.layoutText = <<>> /\ rl'.pc = "return"
          /\ call'.pc = "returned" =>
               (call'.result.kind = "layout" /\ call'.result.layoutText = <<>>)
    ]_vars

\* the empty second page of three has been passed: only its banner was added
C5_Witness ==
  /\ InLayout /\ rl.pc = "page" /\ rl.pi = 3
  /\ Len(call.pageLayouts) = 3
  /\ Strs(call.pageLayouts[1].textItems) = <<<<"A">>>>
  /\ call.pageLayouts[2].textItems = <<>>
  /\ rl.layoutText = <<"A", "\n">> \o Banner(2)

AtSingleFragmentPage ==
  /\ InLayout /\ ValidOptions(call.opts) /\ rl.pc \in {"cluster", "lines", "item"}
  /\ Len(CurrentPage.textItems) = 1

\* C6 as stated: a page of one fragment gives one line, not empty, that is
\* the content of the fragment and nothing else.
C6_Original ==
  [][AtSingleFragmentPage =>
       IF RLAtEndLine(rl)
       THEN /\ CurrentPage.textItems[1].str # <<>>
            /\ rl'.layoutText
                 = rl.layoutText \o CurrentPage.textItems[1].str \o <<"\n">>
            /\ rl'.pc = "page"
       ELSE rl'.layoutText = rl.layoutText]_vars

\* C6, amended: a page of one fragment gives one line: the content of the
\* fragment without its trailing whitespace, with no space before it; the
\* line is empty when the content is empty or blank.
C6_SingleFragment ==
  [][AtSingleFragmentPage =>
       IF RLAtEndLine(rl)
       THEN /\ rl'.layoutText
                 = rl.layoutText \o TrimEnd(CurrentPage.textItems[1].str) \o <<"\n">>
            /\ rl'.pc = "page"
       ELSE rl'.layoutText = rl.layoutText]_vars

\* one fragment away from x = 0 has been rendered at column 0
C6_Witness ==
  /\ OnePageDone
  /\ Len(call.pageLayouts[1].textItems) = 1
  /\ call.pageLayouts[1].textItems[1].x = 2
  /\ rl.layoutText = <<"a", "\n">>

ColumnsAscend(line) ==
  \A k \in 1..(Len(line) - 1) : Column(line[k]) <= Column(line[k + 1])

AtRow == InLayout /\ ValidOptions(call.opts) /\ rl.pc = "item"

\* C7 as stated: the columns of the fragments of a row do not decrease, and
\* the text written so far ends before the column of the next fragment.
C7_Original ==
  AtRow =>
    /\ ColumnsAscend(CurrentLine)
    /\ RLAtItem(rl) => Len(TrimEnd(rl.lineText)) <= Column(CurrentLine[rl.i])

\* the space that follows the fragment at index i of the line: one when the
\* next fragment is 1 or 2 columns away, none otherwise
SpaceAfter(line, i) ==
  IF i < Len(line) /\ Distance(line[i], line[i + 1]) \in 1..(LookAhead - 1)
  THEN 1 ELSE 0

\* C7, amended: the columns of the fragments of a row do not decrease, and
\* every fragment is written after the text of the earlier ones, at or
\* beyond its own column: exactly at its column as long as no fragment
\* written so far reaches past the column of the one after it, and directly
\* after the text on the line, with no space before it, when the fragment
\* just before it reaches to its column or past it.
C7_ColumnMonotonicity ==
  [][(AtRow /\ RLAtItem(rl)) =>
       LET cur == CurrentLine[rl.i]
           spaces == Len(rl'.lineText) - Len(rl.lineText) - Len(cur.str)
                       - SpaceAfter(CurrentLine, rl.i)
           start == Len(rl.lineText) + spaces
       IN  /\ ColumnsAscend(CurrentLine)
           /\ spaces >= 0
           /\ rl'.lineText = rl.lineText \o Repeat(" ", spaces) \o cur.str
                               \o Repeat(" ", SpaceAfter(CurrentLine, rl.i))
           /\ start >= Column(cur)
           /\ NonOverlapping(SubSeq(CurrentLine, 1, rl.i)) => start = Column(cur)
           /\ (rl.i > 1 /\ Distance(CurrentLine[rl.i - 1], cur) <= 0) => spaces = 0]_vars

\* "bc" at column 0 reaches past column 1, where the second fragment of the
\* row belongs: that one was written directly after it, in column 2
C7_Witness ==
  /\ AtRow /\ rl.i = 3 /\ Len(CurrentLine) = 2
  /\ Column(CurrentLine[1]) = 0 /\ CurrentLine[1].str = <<"b", "c">>
  /\ Column(CurrentLine[2]) = 1 /\ CurrentLine[2].str = <<"a">>
  /\ rl.lineText = <<"b", "c", "a">>

\* C8 as stated: reconstructLayout never runs with a yTolerance or a
\* characterWidthDivisor that is not positive.
C8_Original == InLayout => ValidOptions(call.opts)

CauseMessage(error) == IF error.kind = "Error" THEN error.message ELSE error.text

\* C9: a failure at any step reaches the caller as one Error whose message is
\* the fixed prefix followed by the message of the cause, with no result
\* beside it; extractText and extractLayoutData hand on that same error.
C9_WrappedFailure ==
  /\ call.caught.kind # "none" =>
       /\ call.pc \in {"thrown", "done"}
       /\ call.result = [kind |-> "error", name |-> "Error",
                         message |-> "Failed to extract text from PDF: "
                                       \o CauseMessage(call.caught)]
  /\ (rl.pc = "throw" /\ ~InLayout) => call.caught = rl.error
  /\ call.result.kind = "error" => call.caught.kind # "none"
  /\ call.pc = "done" => (call.received = call.result /\ Received(call) = call.result)
  /\ (call.pc = "thrown" /\ call.entry = "extractTextFromPdf") =>
       Received(call) = call.result

\* the test of the repository: extractText of a file that does not exist
C9_Witness ==
  /\ call.entry = "extractText" /\ call.pc = "done"
  /\ call.received.kind = "error"
  /\ call.received.message = "Failed to extract text from PDF: readFile failed"

FlipDebug(o) == [o EXCEPT !.enableDebug = ~@]

\* C10: the layout text, and whether the call fails, are the same with
\* enableDebug on and off; without it nothing is written to the diagnostic
\* channel; the flat text is that of the items alone.
C10_DebugNeutral ==
  /\ (InLayout /\ rl.pc \in {"return", "throw"}) =>
       LET other == reconstructLayout(call.pageLayouts, FlipDebug(call.opts))
       IN  /\ other.pc = rl.pc
           /\ other.layoutText = rl.layoutText
           /\ other.error = rl.error
           /\ ~call.opts.enableDebug => rl.stderr = <<>>
  /\ call.result.kind = "layout" =>
       /\ call.result.layoutText
            = reconstructLayout(call.pageLayouts, FlipDebug(call.opts)).layoutText
       /\ call.result.text
            = Flatten([k \in 1..Len(call.pageLayouts) |->
                         PageText(call.pageLayouts[k].textItems)])

C10_Witness ==
  /\ call.result.kind = "layout" /\ call.opts.enableDebug
  /\ Len(rl.stderr) = 3 /\ Len(rl.lines) = 2

\* getTextContent is resolving for the page in hand
AtTextContent == call.pc = "getTextContent"

\* the strings of the items one after the other
Concatenated(items) == Flatten(Strs(items))

\* the strings of the items one after the other, a line end after each item
\* that ends a line
WithLineEnds(items) ==
  Flatten([k \in 1..Len(items) |->
             items[k].str \o (IF items[k].hasEOL THEN <<"\n">> ELSE <<>>)])

\* the text a settled call carries is the text accumulated over the pages
TextIsAccumulated ==
  call.result.kind \in {"text", "layout"} => call.result.text = call.extractedText

\* C11 as stated: the flat text is the strings of the fragments, page after
\* page and in parse order within a page, with nothing between them, whatever
\* the options.
C11_Original ==
  [][(AtTextContent /\ call'.pc # "thrown") =>
       /\ \E items \in PageContents(call) :
            call'.extractedText = call.extractedText \o Concatenated(items)
       /\ TextIsAccumulated']_vars

\* C11, amended: the flat text is the strings of the fragments, page after
\* page and in parse order within a page, with one newline after every
\* fragment that ends a line (hasEOL) and nothing else between them; the
\* pages kept for the layout are the same fragments, and no option enters it.
C11_FlatText ==
  [][/\ (AtTextContent /\ call'.pc # "thrown") =>
          \E items \in PageContents(call) :
            /\ call'.extractedText = call.extractedText \o WithLineEnds(items)
            /\ call.opts.includeLayout =>
                 call'.pageLayouts
                   = Append(call.pageLayouts,
                            [pageNumber |-> call.pageNumber, textItems |-> items])
     /\ ~AtTextContent => call'.extractedText = call.extractedText
     /\ TextIsAccumulated'
     /\ call'.result.kind = "layout" =>
          call'.result.text
            = Flatten([k \in 1..Len(call'.pageLayouts) |->
                         WithLineEnds(call'.pageLayouts[k].textItems)])]_vars

\* three pages read without layout: a fragment that ends a line, an empty
\* page, a fragment that does not
C11_Witness ==
  /\ call.pc = "returned" /\ ~call.opts.includeLayout
  /\ call.numPages = 3
  /\ call.totalTextItems = 2
  /\ call.result = [kind |-> "text", text |-> <<"A", "\n", "A">>]

\* the number of fragments of all the pages kept for the layout
FragmentCount(pageLayouts) ==
  Len(Flatten([k \in 1..Len(pageLayouts) |-> pageLayouts[k].textItems]))

\* the call has settled with a value
Settled == call.pc \in {"returned", "done"} /\ call.caught.kind = "none"

\* C12: extractTextFromPdf settles with the flat text alone when includeLayout
\* is false or absent and with the structured result when it is true;
\* extractText always settles with the text and extractLayoutData always with
\* the structured result, whatever options they are given.  The structured
\* result carries the flat text, the layout text, the metadata, one
\* pageLayouts entry per page, and the counts, totalTextItems being the sum of
\* the fragment counts of the pages.
C12_ResultShape ==
  /\ Settled =>
       /\ call.result.kind = (IF call.opts.includeLayout THEN "layout" ELSE "text")
       /\ call.entry = "extractText" => call.result.kind = "text"
       /\ call.entry = "extractLayoutData" => call.result.kind = "layout"
       /\ call.pc = "done" => Received(call) = call.result
  /\ call.result.kind = "text" =>
       /\ DOMAIN call.result = {"kind", "text"}
       /\ call.result.text = call.extractedText
  /\ call.result.kind = "layout" =>
       /\ DOMAIN call.result = {"kind", "text", "layoutText", "metadata", "pages",
                                "pageLayouts", "rawData"}
       /\ call.result.text = call.extractedText
       /\ rl.pc = "return" /\ call.result.layoutText = rl.layoutText
       /\ call.result.pages = call.numPages
       /\ call.result.metadata.pages = call.numPages
       /\ Len(call.result.pageLayouts) = call.numPages
       /\ \A k \in 1..call.numPages :
            call.result.pageLayouts[k].pageNumber = k
       /\ call.result.rawData.totalTextItems = FragmentCount(call.result.pageLayouts)
       /\ call.result.rawData.textLength = Len(call.result.text)

\* extractLayoutData has handed on the structured result of a document of
\* three pages holding two fragments
C12_Witness ==
  /\ call.entry = "extractLayoutData" /\ call.pc = "done"
  /\ call.received.kind = "layout"
  /\ Len(call.received.pageLayouts) = 3
  /\ call.received.rawData.totalTextItems = 2
  /\ call.received.metadata.title = [kind |-> "string", value |-> "Report"]

\* the invocation as it was called
AsCalled(inv) == Invocation(inv.frame.entry, inv.frame.opts, inv.isPath, inv.file)

SameCall(a, b) == AsCalled(a) = AsCalled(b)

\* invocation p shares its byte array with no other invocation
OwnInput(p) == Array(call, p) = 0 \/ Array(call, p) # Array(call, 3 - p)

\* invocation p has what it has when it runs alone
AsAlone(p) ==
  /\ Received(call.invs[p].frame) = Received(Alone(AsCalled(call.invs[p])).frame)
  /\ call.invs[p].frame.result = Alone(AsCalled(call.invs[p])).frame.result

\* invocation p has the failure of getDocument on an array without bytes
AsDetached(p) ==
  LET alone == Alone([AsCalled(call.invs[p]) EXCEPT !.file = Detached]).frame
  IN  /\ Array(call, p) \in call.taken
      /\ Received(call.invs[p].frame) = Received(alone)
      /\ call.invs[p].frame.result = alone.result

BothSettled == IsSettled(call.invs[1].frame) /\ IsSettled(call.invs[2].frame)

NothingDone == call.pc \in {"main", "exited"} /\ call.frame = NotCalled /\ call.written = {}

\* C14: main looks at help, then version, then input.  With --help the help
\* text is printed and the process ends with code 0; with --version and no
\* --help "pdf2txt v<VERSION>" is printed and the process ends with code 0;
\* with neither and no input "Input file is required" goes to the error
\* stream and the process ends with code 1.  In none of the three is the
\* extraction started or a file written.
C14_ArgumentOrder ==
  /\ call.args.help =>
       /\ NothingDone /\ call.stderr = <<>>
       /\ call.exited =>
            /\ call.code = 0
            /\ call.stdout = <<[kind |-> "lines", lines |-> HelpText]>>
  /\ (~call.args.help /\ call.args.version) =>
       /\ NothingDone /\ call.stderr = <<>>
       /\ call.exited =>
            /\ call.code = 0
            /\ call.stdout = <<Line("pdf2txt v1.0.0")>>
  /\ (~call.args.help /\ ~call.args.version /\ ~call.args.input.given) =>
       /\ NothingDone /\ call.stdout = <<>>
       /\ call.exited =>
            /\ call.code = 1
            /\ Len(call.stderr) = 2
            /\ call.stderr[1]
                 = Line("Error: Input file is required. Use --input or -i to specify a PDF file.")

\* --help, --version and an input given together: the help was printed and
\* nothing else happened
C14_Witness ==
  /\ call.exited /\ call.code = 0
  /\ call.args.help /\ call.args.version /\ Truthy(call.args.input)
  /\ Truthy(call.args.output)
  /\ call.stdout = <<[kind |-> "lines", lines |-> HelpText]>>
  /\ call.written = {}

\* the clustering pass is about to process a fragment, under admitted options
AtClusterStep == InLayout /\ ValidOptions(call.opts) /\ rl.pc = "cluster"

\* C15: after every fragment the clustering pass processes, the groups made
\* before keep their anchor and their first fragment, at most one group is
\* added, the anchor of every group is the y of the first fragment put in
\* it, and every fragment of a group is strictly less than yTolerance away
\* from the anchor (for yTolerance > 0, the documented range).
C15_AnchorFixed ==
  [][AtClusterStep =>
       /\ Len(rl'.yGroups) \in {Len(rl.yGroups), Len(rl.yGroups) + 1}
       /\ \A k \in 1..Len(rl.yGroups) :
            /\ rl'.yGroups[k].groupY = rl.yGroups[k].groupY
            /\ rl'.yGroups[k].items[1] = rl.yGroups[k].items[1]
       /\ \A k \in 1..Len(rl'.yGroups) :
            /\ rl'.yGroups[k].groupY = rl'.yGroups[k].items[1].y
            /\ \A j \in 1..Len(rl'.yGroups[k].items) :
                 Abs(rl'.yGroups[k].items[j].y - rl'.yGroups[k].groupY)
                   < call.opts.yTolerance]_vars

\* a group whose anchor is neither its highest nor its lowest fragment
C15_Witness ==
  /\ InLayout /\ ValidOptions(call.opts) /\ rl.pc = "lines"
  /\ Len(rl.yGroups) = 1 /\ Len(rl.yGroups[1].items) = 3
  /\ rl.yGroups[1].groupY = 1
  /\ rl.yGroups[1].items[2].y = 2 /\ rl.yGroups[1].items[3].y = 0

\* the groups whose anchor is within the tolerance of the fragment
Within(yGroups, item) ==
  {k \in 1..Len(yGroups) : Abs(item.y - yGroups[k].groupY) < call.opts.yTolerance}

\* C16: a fragment within yTolerance of the anchors of several groups joins
\* the one created first and leaves the others as they are; a group is
\* opened, after the existing ones and with the fragment alone in it, only
\* when no anchor is within yTolerance.
C16_FirstMatch ==
  [][AtClusterStep =>
       LET item == rl.sortedItems[rl.ci]
           within == Within(rl.yGroups, item)
       IN  IF within = {}
           THEN /\ Len(rl'.yGroups) = Len(rl.yGroups) + 1
                /\ SubSeq(rl'.yGroups, 1, Len(rl.yGroups)) = rl.yGroups
                /\ rl'.yGroups[Len(rl'.yGroups)]
                     = [groupY |-> item.y, items |-> <<item>>]
           ELSE /\ Len(rl'.yGroups) = Len(rl.yGroups)
                /\ \E k \in within :
                     /\ \A j \in within : k <= j
                     /\ rl'.yGroups[k].items = Append(rl.yGroups[k].items, item)
                     /\ \A j \in 1..Len(rl.yGroups) :
                          j # k => rl'.yGroups[j] = rl.yGroups[j]]_vars

\* a fragment at y = 1 came after the groups of y = 0 and y = 2 were made,
\* within the tolerance 2 of both, and is in the first
C16_Witness ==
  /\ InLayout /\ rl.pc = "lines" /\ call.opts.yTolerance = 2
  /\ Len(rl.yGroups) = 2
  /\ rl.yGroups[1].groupY = 0 /\ rl.yGroups[2].groupY = 2
  /\ Len(rl.yGroups[1].items) = 2 /\ rl.yGroups[1].items[2].y = 1
  /\ Len(rl.yGroups[2].items) = 1

\* the clustering pass of a page is under way or just over
InClustering == InLayout /\ ValidOptions(call.opts) /\ rl.pc \in {"cluster", "lines"}

\* every two fragments are less than the band of the first sort apart in y
AllInBand(items) ==
  \A j, k \in 1..Len(items) : Abs(items[j].y - items[k].y) < SortBand

\* every two fragments are at least the band of the first sort apart in y
AllApart(items) ==
  \A j, k \in 1..Len(items) : j # k => Abs(items[j].y - items[k].y) >= SortBand

\* the fragments at x, in the order of the sequence
AtX(items, x) == SelectSeq(items, LAMBDA it : it.x = x)

\* the groups made so far, each with the highest y of its fragments
Topmost(group) == Max({group.items[j].y : j \in 1..Len(group.items)})

\* C17 as stated: the fragments are processed by descending y, by ascending
\* x among those of equal y, and the anchor of a group is the y of its
\* topmost fragment.
C17_Original ==
  InClustering =>
    /\ \A j, k \in 1..Len(rl.sortedItems) :
         j < k => \/ rl.sortedItems[j].y > rl.sortedItems[k].y
                  \/ /\ rl.sortedItems[j].y = rl.sortedItems[k].y
                     /\ rl.sortedItems[j].x <= rl.sortedItems[k].x
    /\ \A g \in 1..Len(rl.yGroups) : rl.yGroups[g].groupY = Topmost(rl.yGroups[g])

\* C17, what the code does: the fragments are processed in the order of the
\* first sort,
\* which compares two fragments by x when their y are less than 10 apart and
\* by descending y otherwise.  On a page whose fragments are all less than 10
\* apart in y the order is ascending x, fragments of equal x in the order
\* supplied, whatever their y, and the anchor of a group is the y of its
\* leftmost fragment; on a page whose fragments are all 10 or more apart the
\* order is descending y.  The order is always a rearrangement of the page.
C17_ProcessingOrder ==
  InClustering =>
    LET items == CurrentPage.textItems
        sorted == rl.sortedItems
    IN  /\ SameBag(sorted, items)
        /\ AllInBand(items) =>
             /\ \A j, k \in 1..Len(sorted) : j < k => sorted[j].x <= sorted[k].x
             /\ \A k \in 1..Len(items) : AtX(sorted, items[k].x) = AtX(items, items[k].x)
             /\ \A g \in 1..Len(rl.yGroups) :
                  /\ rl.yGroups[g].groupY = rl.yGroups[g].items[1].y
                  /\ \A j \in 1..Len(rl.yGroups[g].items) :
                       rl.yGroups[g].items[1].x <= rl.yGroups[g].items[j].x
        /\ AllApart(items) =>
             \A j, k \in 1..Len(sorted) : j < k => sorted[j].y > sorted[k].y

\* the lower of two fragments of a row was processed first, being the left
\* one, and its y is the anchor
C17_Witness ==
  /\ InClustering /\ rl.pc = "lines"
  /\ Len(rl.sortedItems) = 2
  /\ rl.sortedItems[1].y = 0 /\ rl.sortedItems[2].y = 1
  /\ rl.sortedItems[1].x < rl.sortedItems[2].x
  /\ Len(rl.yGroups) = 1 /\ rl.yGroups[1].groupY = 0

\* the groups of the page are about to be turned into lines
AtBuildLines == InLayout /\ ValidOptions(call.opts) /\ rl.pc = "lines"

\* the groups whose anchor is above that of group g
Above(yGroups, g) == {h \in 1..Len(yGroups) : yGroups[h].groupY > yGroups[g].groupY}

\* C18: the rows of a page become its lines, one line per row, in strictly
\* descending order of the anchors, with the fragments of each line in
\* ascending x, whatever the order in which the fragments were supplied; the
\* lines are rendered in that order, one newline each.
C18_LineOrder ==
  [][/\ AtBuildLines =>
          /\ Len(rl'.lines) = Len(rl.yGroups)
          /\ \A g, h \in 1..Len(rl.yGroups) :
               g # h => rl.yGroups[g].groupY # rl.yGroups[h].groupY
          /\ \A g \in 1..Len(rl.yGroups) :
               LET line == rl'.lines[Cardinality(Above(rl.yGroups, g)) + 1]
               IN  /\ SameBag(line, rl.yGroups[g].items)
                   /\ \A j, k \in 1..Len(line) : j < k => line[j].x <= line[k].x
     /\ (AtRow /\ RLAtEndLine(rl)) =>
          /\ rl'.layoutText = rl.layoutText \o TrimEnd(rl.lineText) \o <<"\n">>
          /\ Letters(rl.lineText) = Letters(Flatten(Strs(CurrentLine)))
          /\ rl'.li = rl.li + 1
          /\ rl'.pc = "page" <=> rl.li = Len(rl.lines)
     /\ (AtRow /\ ~RLAtEndLine(rl)) =>
          (rl'.layoutText = rl.layoutText /\ rl'.li = rl.li /\ rl'.lines = rl.lines)
    ]_vars

\* three fragments supplied lowest first, each a row: the lines are the
\* highest, the middle and the lowest
C18_Witness ==
  /\ AtRow /\ Len(rl.lines) = 3
  /\ CurrentPage.textItems[1].y = 0 /\ CurrentPage.textItems[2].y = 2
  /\ CurrentPage.textItems[3].y = MaxY + SortBand - 1
  /\ rl.lines[1][1].y = MaxY + SortBand - 1
  /\ rl.lines[2][1].y = 2 /\ rl.lines[3][1].y = 0

\* the fragments of the current line emitted so far
Emitted == SubSeq(CurrentLine, 1, rl.i - 1)

\* C19 as stated: the cursor starts at 0 and is, after every fragment, the
\* number of characters emitted so far on the line.
C19_Original == AtRow => rl.lastPos = Num(Len(rl.lineText))

\* C19, amended: the cursor starts at 0 and is, after every fragment, the
\* target column of that fragment plus the length of its content, plus one
\* when the look-ahead space was emitted.  It is never more than the number
\* of characters emitted so far on the line, and it is that number exactly
\* as long as no fragment emitted so far reaches past the target column of
\* the next one emitted.
C19_Cursor ==
  AtRow =>
    /\ rl.lastPos.k = "num"
    /\ rl.i = 1 => (rl.lastPos = Num(0) /\ rl.lineText = <<>>)
    /\ rl.i > 1 =>
         LET last == CurrentLine[rl.i - 1]
             end == Column(last) + Len(last.str)
         IN  /\ rl.lastPos.n \in {end, end + 1}
             /\ rl.lastPos.n = end + 1 <=>
                  /\ RLAtItem(rl)
                  /\ Column(CurrentLine[rl.i]) - end \in 1..(LookAhead - 1)
    /\ rl.lastPos.n <= Len(rl.lineText)
    /\ rl.lastPos.n = Len(rl.lineText) <=> NonOverlapping(Emitted)

\* "bc" at column 0 and then an empty fragment at column 1: two characters
\* are on the line and the cursor is back at 1
C19_Witness ==
  /\ AtRow /\ rl.i = 3
  /\ Strs(Emitted) = <<<<"b", "c">>, <<>>>>
  /\ Column(CurrentLine[2]) = 1
  /\ rl.lineText = <<"b", "c">> /\ rl.lastPos = Num(1)

\* the size of the group a fragment was put in by the clustering pass
GroupSizeOf(yGroups, item) ==
  LET g == CHOOSE g \in 1..Len(yGroups) :
             \E j \in 1..Len(yGroups[g].items) : yGroups[g].items[j] = item
  IN  Len(yGroups[g].items)

\* the records of the fragments in the order given, each with the size of its
\* group
RecordsOf(items, yGroups) ==
  [k \in 1..Len(items) |-> DebugLine(items[k], GroupSizeOf(yGroups, items[k]))]

AtDebugOutput == AtBuildLines /\ call.opts.enableDebug

\* C20 as stated: with debug enabled one record is written for each fragment
\* of a page that has fragments, in the order in which the clustering pass
\* processed the fragments, each with the size of the group of the fragment.
C20_Original ==
  [][AtDebugOutput =>
       rl'.stderr = rl.stderr \o RecordsOf(rl.sortedItems, rl.yGroups)]_vars

\* C20, what the code does: the records of a page are written in the order
\* of its lines, top row first and left to right within a row, one for each
\* fragment, each with the size of the group of the fragment; nothing is
\* written at any other step or without debug.
C20_RowOrder ==
  [][/\ AtDebugOutput =>
          /\ rl'.stderr = rl.stderr \o RecordsOf(Flatten(rl'.lines), rl.yGroups)
          /\ SameBag(Flatten(rl'.lines), CurrentPage.textItems)
     /\ ~(InLayout /\ rl.pc = "lines" /\ call.opts.enableDebug) =>
          rl'.stderr = rl.stderr]_vars

\* two rows whose fragments were processed lower row first: the record of
\* the upper row is written first
C20_Witness ==
  /\ AtRow /\ call.opts.enableDebug
  /\ Len(rl.sortedItems) = 2 /\ Len(rl.lines) = 2
  /\ rl.sortedItems[1].y < rl.sortedItems[2].y
  /\ rl.stderr = <<DebugLine(rl.sortedItems[2], 1), DebugLine(rl.sortedItems[1], 1)>>

\* the first n fragments of a line, the first after as many spaces as its
\* column, each later one after max(0, distance) spaces
RECURSIVE Spaced(_, _)
Spaced(line, n) ==
  IF n = 0 THEN <<>>
  ELSE IF n = 1 THEN Repeat(" ", Column(line[1])) \o line[1].str
  ELSE Spaced(line, n - 1)
         \o Repeat(" ", Max({0, Distance(line[n - 1], line[n])}))
         \o line[n].str

\* the look-ahead space is on the line: a fragment follows at a distance of
\* 1 or 2
LookAheadPending ==
  /\ rl.i > 1 /\ RLAtItem(rl)
  /\ Distance(CurrentLine[rl.i - 1], CurrentLine[rl.i]) \in 1..(LookAhead - 1)

\* C21: between the contents of two consecutive fragments a, b of a row
\* exactly max(0, target_b - (target_a + length(a))) spaces are emitted: the
\* look-ahead space emitted at a distance of 1 or 2 is one of them, not one
\* more, and at a distance of 0 or less there is none; so the line rendered
\* is the one built from these distances alone.
C21_SpacesBetween ==
  [][AtRow =>
       /\ rl.lineText = Spaced(CurrentLine, rl.i - 1)
                          \o (IF LookAheadPending THEN <<" ">> ELSE <<>>)
       /\ RLAtEndLine(rl) =>
            rl'.layoutText = rl.layoutText
                               \o TrimEnd(Spaced(CurrentLine, Len(CurrentLine)))
                               \o <<"\n">>]_vars

\* "bc" at column 0, "a" at column 1 and "a" at column 4: no space at the
\* distance -1, two spaces, the look-ahead space being one, at the distance 2
C21_Witness ==
  /\ AtRow /\ RLAtEndLine(rl) /\ Len(CurrentLine) = 3
  /\ Column(CurrentLine[1]) = 0 /\ Column(CurrentLine[2]) = 1
  /\ Column(CurrentLine[3]) = 4
  /\ rl.lineText = <<"b", "c", "a", " ", " ", "a">>

====
